---- MODULE Spec2Model ----
(***************************************************************************)
(* A model of ccmon (github.com/tzneal/ccmon): scenario.Open and           *)
(* Scenario.Validate, the scenario runner (scenario/runner.go) and the     *)
(* cost monitor (scenario/costmonitor.go), driven by bin/ccmon/main.go.    *)
(*                                                                         *)
(* The clock counts whole units; deployments are identified by their index *)
(* in scen.Deployments (names are unique after Validate).  Node prices are *)
(* whole numbers; cumulativeCost is kept in units of 1/3600 of the price   *)
(* unit and pendingPodSeconds in quarter seconds, so that the additions of *)
(* logCost and monitorPendingPods are exact.                               *)
(*                                                                         *)
(* Three subsystems share the variables and are explored separately:       *)
(*   SpecValidate            Open on a decoded scenario file               *)
(*   SpecRun, SpecRetry      main, Execute and the event goroutines        *)
(*   SpecMon                 the four goroutines of the monitor            *)
(* FairSpecRun and FairSpecMon add the scheduling of the goroutines.  The  *)
(* event goroutines and the monitor's goroutines share nothing but the     *)
(* context and the process: neither reads or writes a variable of the      *)
(* other.                                                                  *)
(***************************************************************************)
EXTENDS Integers, Sequences, FiniteSets, TLC

(***************************************************************************)
(* Bounds of the model.                                                    *)
(***************************************************************************)
MaxClock == 2           \* the clock stops here
MaxConflicts == 1       \* write conflicts the API server answers per event
MaxInEvents == 2        \* events in a scenario file
MaxInDeps == 2          \* deployments in a scenario file
MaxFastTicks == 2       \* ticks of the 250ms ticker in a run
MaxSlowTicks == 2       \* ticks of the 1s ticker in a run

(* The retry budget of Runner.execute: for try := 0; try < 100; try++ *)
MaxTries == 100

VARIABLES
    (* --- process and context (bin/ccmon/main.go) --- *)
    alive,          \* the process is running
    ctxDone,        \* the signal.NotifyContext context is cancelled
    now,            \* wall clock
    (* --- environment the program does not write --- *)
    scen,           \* the validated scenario handed to Execute
    stuck,          \* the event whose UpdateScale always conflicts (0: none)
    clusterNodes,   \* names of the nodes that exist in the cluster
    (* --- Runner.Execute --- *)
    opc,            \* position of the orchestrator (main, Execute, its defers)
    idx,            \* loop index of the create loop / the cleanup loop
    defers,         \* the defer stack of Execute
    execErr,        \* the error Execute returns ("" is nil)
    start,          \* r.start and c.start
    waitDeadline,   \* deadline of time.After(scen.Duration)
    cmState,        \* the CostMonitor object: none / constructed / started / stopped
    stoppedAt,      \* number of Delete calls made when cm.Stop() ran (-1: not run)
    (* --- event goroutines --- *)
    epc,            \* position of each event's goroutine
    edeadline,      \* deadline of each waiter's time.After(ev.Time)
    try,            \* loop variable of Runner.execute
    (* --- the cluster API as seen from the runner --- *)
    cluster,        \* deployments that exist in the cluster
    everCreated,    \* deployments a Create call has succeeded for
    replicas,       \* replica count of each deployment's scale subresource
    reads,          \* GetScale calls issued per event
    writes,         \* UpdateScale calls issued per event
    delAttempts,    \* sequence of <<deployment, ok>> Delete calls
    rlog,           \* lines written through the log package
    (* --- scenario.Open --- *)
    vin,            \* what the YAML decoder produced for the file
    vpc,            \* position of Open: "decoded", "returned", "hang"
    vout,           \* what Open returned: the scenario (or NoScenario) and the error
    (* --- CostMonitor: goroutines --- *)
    npc,            \* monitorNodes
    ppc,            \* monitorPods
    fpc,            \* monitorPendingPods
    spc,            \* logCost
    (* --- CostMonitor: fields --- *)
    nodes,          \* c.nodes: node name -> instance type label of the node
    nodePrices,     \* c.nodePrices: node name -> price
    pods,           \* c.pods: pod UID -> phase
    pendingPods,    \* c.pendingPods
    pendingPodSeconds,  \* c.pendingPodSeconds, in quarter seconds
    cumulativeCost, \* c.cumulativeCost, in 1/3600 price units
    fseen,          \* pods the range loop of monitorPendingPods has visited
    (* --- CostMonitor: the csv writer and the log file --- *)
    csvBuf,         \* records buffered in c.csv
    csvErr,         \* the sticky write error of c.csv's buffer
    fileRecs,       \* records in the file
    fileClosed,     \* c.log is closed
    lastRow,        \* the last data row handed to c.csv.Write
    (* --- what the environment still delivers --- *)
    fleft,          \* ticks of the 250ms ticker
    sleft,          \* ticks of the 1s ticker
    nfeed,          \* notifications of the node watch: delivered (done) and
                    \* still to deliver (todo), in order
    pfeed           \* notifications of the pod watch, likewise

envVars == <<scen, stuck, clusterNodes>>
orchVars == <<opc, idx, defers, execErr, start, waitDeadline, cmState, stoppedAt>>
evVars == <<epc, edeadline, try>>
apiVars == <<cluster, everCreated, replicas, reads, writes, delAttempts>>
valVars == <<vin, vpc, vout>>
mpcVars == <<npc, ppc, fpc, spc>>
trackVars == <<nodes, nodePrices, pods>>
accVars == <<pendingPods, pendingPodSeconds, cumulativeCost, fseen>>
sinkVars == <<csvBuf, csvErr, fileRecs, fileClosed, lastRow>>
budgetVars == <<fleft, sleft, nfeed, pfeed>>
monVars == <<mpcVars, trackVars, accVars, sinkVars, budgetVars>>

(* what the actions of the runner leave alone *)
outsideRunner == <<valVars, monVars>>

(* what the goroutines of the monitor leave alone *)
outsideMonitor == <<alive, ctxDone, now, envVars, orchVars, evVars, apiVars, valVars>>

vars == <<alive, ctxDone, now, envVars, orchVars, evVars, apiVars, rlog, valVars,
          monVars>>

(***************************************************************************)
(* Scenarios as Validate leaves them: at least one event, every event      *)
(* referring to a declared deployment, events sorted by time.  deps is     *)
(* len(scen.Deployments); an event is its offset, the index of its         *)
(* deployment and its replica count.                                       *)
(***************************************************************************)
Event(t, d, r) == [time |-> t, dep |-> d, replicas |-> r]

TwoWorkloads ==
    [deps |-> 2, events |-> <<Event(0, 1, 1), Event(1, 2, 2)>>, duration |-> 2]

SharedWorkload ==
    [deps |-> 1, events |-> <<Event(1, 1, 1), Event(1, 1, 2)>>, duration |-> 1]

SingleEvent ==
    [deps |-> 2, events |-> <<Event(0, 2, 1)>>, duration |-> 1]

Scenarios == {TwoWorkloads, SharedWorkload, SingleEvent}

Events == 1..Len(scen.events)

Deps == 1..scen.deps

NoInput == [decoded |-> FALSE]

NoScenario == [nil |-> TRUE]

NoResult == [scenario |-> NoScenario, err |-> ""]

NoRow == [none |-> TRUE]

(* Open is not running *)
OpenIdle ==
    /\ vin = NoInput
    /\ vpc = "returned"
    /\ vout = NoResult

(* main has a scenario of scens and has not called Execute yet; the API
   server will reject every write of the event stuck (0: of none) *)
RunnerAtMain(scens, stucks) ==
    /\ alive = TRUE
    /\ ctxDone = FALSE
    /\ now = 0
    /\ scen \in scens
    /\ stuck \in stucks
    /\ opc = "main"
    /\ idx = 1
    /\ defers = <<>>
    /\ execErr = ""
    /\ start = 0
    /\ waitDeadline = 0
    /\ cmState = "none"
    /\ stoppedAt = -1
    /\ epc = [e \in Events |-> "idle"]
    /\ edeadline = [e \in Events |-> 0]
    /\ try = [e \in Events |-> 0]
    /\ cluster = {}
    /\ everCreated = {}
    /\ replicas = [d \in Deps |-> 0]
    /\ reads = [e \in Events |-> 0]
    /\ writes = [e \in Events |-> 0]
    /\ delAttempts = <<>>
    /\ rlog = {}

(* the fields of a CostMonitor as NewCostMonitor makes them
   (costmonitor.go:57-66), its goroutines at the positions pcs; the tickers
   deliver at most f and s ticks, the watches the notifications nf and pf *)
MonitorAt(pcs, f, s, nf, pf) ==
    /\ npc = pcs[1]
    /\ ppc = pcs[2]
    /\ fpc = pcs[3]
    /\ spc = pcs[4]
    /\ nodes = <<>>
    /\ nodePrices = <<>>
    /\ pods = <<>>
    /\ pendingPods = 0
    /\ pendingPodSeconds = 0
    /\ cumulativeCost = 0
    /\ fseen = {}
    /\ csvBuf = 0
    /\ csvErr = FALSE
    /\ fileRecs = 0
    /\ fileClosed = FALSE
    /\ lastRow = NoRow
    /\ fleft = f
    /\ sleft = s
    /\ nfeed = [done |-> <<>>, todo |-> nf]
    /\ pfeed = [done |-> <<>>, todo |-> pf]

(* no goroutine of the monitor runs, nothing is delivered *)
MonitorIdle ==
    MonitorAt(<<"idle", "idle", "idle", "idle">>, 0, 0, <<>>, <<>>) /\ clusterNodes = {}

RunInit == RunnerAtMain(Scenarios, {0}) /\ OpenIdle /\ MonitorIdle

RetryInit == RunnerAtMain({SharedWorkload}, {1}) /\ OpenIdle /\ MonitorIdle

FairInit ==
    RunnerAtMain({SharedWorkload, SingleEvent}, {0}) /\ OpenIdle /\ MonitorIdle

(***************************************************************************)
(* The csv writer over the log file (encoding/csv over bufio over os.File) *)
(***************************************************************************)

(* csv.Writer.Write: the record is buffered unless the buffer has failed *)
CsvWrite(buf, err) == IF err THEN buf ELSE buf + 1

(* csv.Writer.Flush: the buffered records reach the file; writing to a
   closed file fails, the records stay in the buffer and the error sticks.
   The result is <<buffer, error, records in the file>>. *)
CsvFlush(buf, err, recs, closed) ==
    IF err \/ buf = 0 THEN <<buf, err, recs>>
    ELSE IF closed THEN <<buf, TRUE, recs>>
    ELSE <<0, FALSE, recs + buf>>

(***************************************************************************)
(* Environment: the clock and the interrupt signal.                        *)
(***************************************************************************)
Tick ==
    /\ alive
    /\ now < MaxClock
    /\ now' = now + 1
    /\ UNCHANGED <<alive, ctxDone, envVars, orchVars, evVars, apiVars, rlog>>
    /\ UNCHANGED outsideRunner

(* SIGINT / SIGTERM cancels the context of main.go:48 *)
Cancel ==
    /\ alive
    /\ ~ctxDone
    /\ ctxDone' = TRUE
    /\ UNCHANGED <<alive, now, envVars, orchVars, evVars, apiVars, rlog>>
    /\ UNCHANGED outsideRunner

(***************************************************************************)
(* main and Runner.Execute                                                 *)
(***************************************************************************)

(* main.go:37-46: scenario.Open or scenario.NewRunner fails, log.Fatalf *)
MainFatal ==
    /\ alive
    /\ opc = "main"
    /\ opc' = "exited"
    /\ alive' = FALSE
    /\ rlog' = rlog \cup {<<"fatal", "startup">>}
    /\ UNCHANGED outsideRunner
    /\ UNCHANGED <<ctxDone, now, envVars, idx, defers, execErr, start, waitDeadline,
                   cmState, stoppedAt, evVars, apiVars>>

(* the defers Execute has registered once it is past line 38 *)
DefersAtEntry == <<"cleanup">>

(* main.go:51 calls Execute; runner.go:38 defer r.cleanup(scen) *)
CallExecute ==
    /\ alive
    /\ opc = "main"
    /\ opc' = "create"
    /\ idx' = 1
    /\ defers' = DefersAtEntry
    /\ UNCHANGED outsideRunner
    /\ UNCHANGED <<alive, ctxDone, now, envVars, execErr, start, waitDeadline,
                   cmState, stoppedAt, evVars, apiVars, rlog>>

(* runner.go:41-46: one iteration of the create loop.  A Create call on a
   cancelled context fails. *)
CreateDep ==
    /\ alive
    /\ opc = "create"
    /\ \E ok \in BOOLEAN :
        /\ ok => ~ctxDone
        /\ IF ok
           THEN /\ cluster' = cluster \cup {idx}
                /\ everCreated' = everCreated \cup {idx}
                /\ IF idx = scen.deps
                   THEN opc' = "newcm" /\ idx' = 1
                   ELSE opc' = "create" /\ idx' = idx + 1
                /\ UNCHANGED execErr
           ELSE /\ execErr' = "creating deployment"
                /\ opc' = "defers"
                /\ UNCHANGED <<cluster, everCreated, idx>>
    /\ UNCHANGED outsideRunner
    /\ UNCHANGED <<alive, ctxDone, now, envVars, defers, start, waitDeadline, cmState,
                   stoppedAt, evVars, replicas, reads, writes, delAttempts, rlog>>

(* runner.go:48-51 and NewCostMonitor: creating the log file or refreshing
   the on-demand or spot pricing may fail *)
NewCostMonitor ==
    /\ alive
    /\ opc = "newcm"
    /\ \E ok \in BOOLEAN :
        IF ok
        THEN /\ cmState' = "constructed"
             /\ opc' = "startcm"
             /\ UNCHANGED execErr
        ELSE /\ execErr' = "creating cost monitor"
             /\ opc' = "defers"
             /\ UNCHANGED cmState
    /\ UNCHANGED outsideRunner
    /\ UNCHANGED <<alive, ctxDone, now, envVars, idx, defers, start, waitDeadline,
                   stoppedAt, evVars, apiVars, rlog>>

(* runner.go:52-54: defer cm.Stop(); r.start = time.Now(); cm.Start *)
StartMonitor ==
    /\ alive
    /\ opc = "startcm"
    /\ defers' = Append(defers, "stop")
    /\ start' = now
    /\ cmState' = "started"
    /\ opc' = "spawn"
    /\ npc' = "open"
    /\ ppc' = "open"
    /\ fpc' = "select"
    /\ spc' = "start"
    /\ UNCHANGED <<valVars, trackVars, accVars, sinkVars, budgetVars>>
    /\ UNCHANGED <<alive, ctxDone, now, envVars, idx, execErr, waitDeadline, stoppedAt,
                   evVars, apiVars, rlog>>

(* runner.go:56-68: one goroutine per event, then the select with
   time.After(scen.Duration) *)
SpawnWaiters ==
    /\ alive
    /\ opc = "spawn"
    /\ epc' = [e \in Events |-> "spawned"]
    /\ waitDeadline' = now + scen.duration
    /\ opc' = "wait"
    /\ rlog' = rlog \cup {<<"starting scenario", 0>>}
    /\ UNCHANGED outsideRunner
    /\ UNCHANGED <<alive, ctxDone, now, envVars, idx, defers, execErr, start, cmState,
                   stoppedAt, edeadline, try, apiVars>>

(* runner.go:69: case <-time.After(scen.Duration) *)
WaitElapsed ==
    /\ alive
    /\ opc = "wait"
    /\ now >= waitDeadline
    /\ opc' = "defers"
    /\ UNCHANGED outsideRunner
    /\ UNCHANGED <<alive, ctxDone, now, envVars, idx, defers, execErr, start,
                   waitDeadline, cmState, stoppedAt, evVars, apiVars, rlog>>

(* runner.go:70-71: case <-ctx.Done() *)
WaitInterrupted ==
    /\ alive
    /\ opc = "wait"
    /\ ctxDone
    /\ opc' = "defers"
    /\ rlog' = rlog \cup {<<"interrupted, exiting", 0>>}
    /\ UNCHANGED outsideRunner
    /\ UNCHANGED <<alive, ctxDone, now, envVars, idx, defers, execErr, start,
                   waitDeadline, cmState, stoppedAt, evVars, apiVars>>

(* Go runs deferred calls last in, first out *)
NextDeferred(stack) == stack[Len(stack)]

RestDeferred(stack) == SubSeq(stack, 1, Len(stack) - 1)

(* the deferred cm.Stop(): runner.go:52, costmonitor.go:70-74 *)
RunDeferredStop ==
    /\ alive
    /\ opc = "defers"
    /\ defers # <<>>
    /\ NextDeferred(defers) = "stop"
    /\ defers' = RestDeferred(defers)
    /\ cmState' = "stopped"
    /\ stoppedAt' = Len(delAttempts)
    /\ csvBuf' = CsvFlush(csvBuf, csvErr, fileRecs, fileClosed)[1]
    /\ csvErr' = CsvFlush(csvBuf, csvErr, fileRecs, fileClosed)[2]
    /\ fileRecs' = CsvFlush(csvBuf, csvErr, fileRecs, fileClosed)[3]
    /\ fileClosed' = TRUE
    /\ rlog' = rlog \cup {<<"total cost", cumulativeCost>>}
    /\ UNCHANGED <<valVars, mpcVars, trackVars, accVars, lastRow, budgetVars>>
    /\ UNCHANGED <<alive, ctxDone, now, envVars, opc, idx, execErr, start,
                   waitDeadline, evVars, apiVars>>

(* the deferred r.cleanup(scen) is entered: runner.go:38, 148-150 *)
RunDeferredCleanup ==
    /\ alive
    /\ opc = "defers"
    /\ defers # <<>>
    /\ NextDeferred(defers) = "cleanup"
    /\ defers' = RestDeferred(defers)
    /\ opc' = "cleanup"
    /\ idx' = 1
    /\ UNCHANGED outsideRunner
    /\ UNCHANGED <<alive, ctxDone, now, envVars, execErr, start, waitDeadline, cmState,
                   stoppedAt, evVars, apiVars, rlog>>

CleanupStopsOnError(d, ok) == IF d = scen.deps \/ ~ok THEN "defers" ELSE "cleanup"

(* runner.go:151, 157-160: after the Delete call for deployment d returned
   (ok or not) the loop goes on to the next deployment *)
CleanupNext(d, ok) == IF d = scen.deps THEN "defers" ELSE "cleanup"

(* runner.go:151-160: one iteration of the cleanup loop.  Delete runs on
   context.Background(); deleting a deployment that does not exist fails. *)
CleanupDep ==
    /\ alive
    /\ opc = "cleanup"
    /\ \E ok \in BOOLEAN :
        /\ ok => idx \in cluster
        /\ cluster' = IF ok THEN cluster \ {idx} ELSE cluster
        /\ delAttempts' = Append(delAttempts, <<idx, ok>>)
        /\ rlog' = IF ok THEN rlog ELSE rlog \cup {<<"deleting deployment", idx>>}
        /\ opc' = CleanupNext(idx, ok)
        /\ idx' = IF CleanupNext(idx, ok) = "cleanup" THEN idx + 1 ELSE idx
    /\ UNCHANGED outsideRunner
    /\ UNCHANGED <<alive, ctxDone, now, envVars, defers, execErr, start, waitDeadline,
                   cmState, stoppedAt, evVars, everCreated, replicas, reads, writes>>

(* every deferred call has run: Execute returns to main *)
ExecuteReturn ==
    /\ alive
    /\ opc = "defers"
    /\ defers = <<>>
    /\ opc' = "returned"
    /\ UNCHANGED outsideRunner
    /\ UNCHANGED <<alive, ctxDone, now, envVars, idx, defers, execErr, start,
                   waitDeadline, cmState, stoppedAt, evVars, apiVars, rlog>>

(* main.go:51-54: log.Fatalf on an error, otherwise main returns; either
   way the process ends and takes every goroutine with it *)
Exit ==
    /\ alive
    /\ opc = "returned"
    /\ opc' = "exited"
    /\ alive' = FALSE
    /\ rlog' = IF execErr = "" THEN rlog ELSE rlog \cup {<<"fatal", execErr>>}
    /\ UNCHANGED outsideRunner
    /\ UNCHANGED <<ctxDone, now, envVars, idx, defers, execErr, start, waitDeadline,
                   cmState, stoppedAt, evVars, apiVars>>

(***************************************************************************)
(* The event goroutines: runner.go:59-66 and Runner.execute                *)
(***************************************************************************)
Ev(e) == scen.events[e]

(* the goroutine reaches its select: time.After(ev.Time) is armed now *)
EnterSelect(e) ==
    /\ alive
    /\ epc[e] = "spawned"
    /\ epc' = [epc EXCEPT ![e] = "waiting"]
    /\ edeadline' = [edeadline EXCEPT ![e] = now + Ev(e).time]
    /\ UNCHANGED outsideRunner
    /\ UNCHANGED <<alive, ctxDone, now, envVars, orchVars, try, apiVars, rlog>>

TimerAlwaysExpired(e) == TRUE

(* runner.go:61: the channel of time.After(ev.Time) is ready *)
TimerExpired(e) == now >= edeadline[e]

(* runner.go:61, 65, 122: the timer fired, r.execute(ev) is entered *)
WaiterFire(e) ==
    /\ alive
    /\ epc[e] = "waiting"
    /\ TimerExpired(e)
    /\ epc' = [epc EXCEPT ![e] = "read"]
    /\ try' = [try EXCEPT ![e] = 0]
    /\ rlog' = rlog \cup {<<"scaling", e>>}
    /\ UNCHANGED outsideRunner
    /\ UNCHANGED <<alive, ctxDone, now, envVars, orchVars, edeadline, apiVars>>

(* runner.go:62-63: case <-ctx.Done(): return *)
WaiterCancelled(e) ==
    /\ alive
    /\ epc[e] = "waiting"
    /\ ctxDone
    /\ epc' = [epc EXCEPT ![e] = "cancelled"]
    /\ UNCHANGED outsideRunner
    /\ UNCHANGED <<alive, ctxDone, now, envVars, orchVars, edeadline, try, apiVars,
                   rlog>>

AfterGetScaleErrorGoesOn == "write"

(* runner.go:126-129: what execute does when GetScale returned an error *)
AfterGetScaleError == "abandoned"

(* runner.go:125-129: GetScale on context.Background(); it fails when the
   deployment is gone and may fail for any other reason *)
GetScale(e) ==
    /\ alive
    /\ epc[e] = "read"
    /\ reads' = [reads EXCEPT ![e] = @ + 1]
    /\ \E ok \in BOOLEAN :
        /\ ok => Ev(e).dep \in cluster
        /\ IF ok
           THEN /\ epc' = [epc EXCEPT ![e] = "write"]
                /\ UNCHANGED rlog
           ELSE /\ epc' = [epc EXCEPT ![e] = AfterGetScaleError]
                /\ rlog' = rlog \cup {<<"unable to get scale", e>>}
    /\ UNCHANGED outsideRunner
    /\ UNCHANGED <<alive, ctxDone, now, envVars, orchVars, edeadline, try, cluster,
                   everCreated, replicas, writes, delAttempts>>

LoopContinuesOffByOne(t) == t <= MaxTries

(* runner.go:124: the loop condition try < 100, evaluated after try++ *)
LoopContinues(t) == t < MaxTries

(* runner.go:131-139: UpdateScale on context.Background().  The write of the
   stuck event always conflicts; any other write fails when the deployment
   is gone and conflicts on at most the first MaxConflicts attempts. *)
UpdateScale(e) ==
    /\ alive
    /\ epc[e] = "write"
    /\ writes' = [writes EXCEPT ![e] = @ + 1]
    /\ \E ok \in BOOLEAN :
        /\ ok => (e # stuck /\ Ev(e).dep \in cluster)
        /\ ~ok => (e = stuck \/ Ev(e).dep \notin cluster \/ try[e] < MaxConflicts)
        /\ IF ok
           THEN /\ replicas' = [replicas EXCEPT ![Ev(e).dep] = Ev(e).replicas]
                /\ epc' = [epc EXCEPT ![e] = "done"]
                /\ UNCHANGED <<try, rlog>>
           ELSE /\ rlog' = IF try[e] = MaxTries - 1
                           THEN rlog \cup {<<"unable to scale", e>>}
                           ELSE rlog
                /\ try' = [try EXCEPT ![e] = @ + 1]
                /\ epc' = [epc EXCEPT ![e] =
                             IF LoopContinues(try[e] + 1) THEN "read" ELSE "exhausted"]
                /\ UNCHANGED replicas
    /\ UNCHANGED outsideRunner
    /\ UNCHANGED <<alive, ctxDone, now, envVars, orchVars, edeadline, cluster,
                   everCreated, reads, delAttempts>>

(***************************************************************************)
(* The runner: main, Execute, the event goroutines, clock and interrupt.   *)
(***************************************************************************)
RunNext ==
    \/ Tick
    \/ Cancel
    \/ MainFatal
    \/ CallExecute
    \/ CreateDep
    \/ NewCostMonitor
    \/ StartMonitor
    \/ SpawnWaiters
    \/ WaitElapsed
    \/ WaitInterrupted
    \/ RunDeferredStop
    \/ RunDeferredCleanup
    \/ CleanupDep
    \/ ExecuteReturn
    \/ Exit
    \/ \E e \in Events : EnterSelect(e)
    \/ \E e \in Events : WaiterFire(e)
    \/ \E e \in Events : WaiterCancelled(e)
    \/ \E e \in Events : GetScale(e)
    \/ \E e \in Events : UpdateScale(e)

SpecRun == RunInit /\ [][RunNext]_vars

(* the same system with an API server that rejects every write of one event *)
SpecRetry == RetryInit /\ [][RunNext]_vars

(* Go schedules every runnable goroutine: the orchestrator and each event
   goroutine eventually take their next step, and time passes.  The end of
   the process is left to the caller of Execute. *)
OrchStep ==
    \/ CallExecute
    \/ CreateDep
    \/ NewCostMonitor
    \/ StartMonitor
    \/ SpawnWaiters
    \/ WaitElapsed
    \/ WaitInterrupted
    \/ RunDeferredStop
    \/ RunDeferredCleanup
    \/ CleanupDep
    \/ ExecuteReturn

EventIds == {1, 2}

EventStep(e) ==
    /\ e \in Events
    /\ \/ EnterSelect(e)
       \/ WaiterFire(e)
       \/ WaiterCancelled(e)
       \/ GetScale(e)
       \/ UpdateScale(e)


FairSpecRun ==
    /\ FairInit
    /\ [][RunNext]_vars
    /\ WF_vars(Tick)
    /\ WF_vars(OrchStep)
    /\ \A e \in EventIds : WF_vars(EventStep(e))

(***************************************************************************)
(* Properties of the runner                                                *)
(***************************************************************************)
Issued(e) == epc[e] \in {"read", "write", "done", "abandoned", "exhausted"}

ReadFailed(e) == <<"unable to get scale", e>> \in rlog

NotBlocked(f) ==
    /\ (alive /\ epc[f] = "waiting" /\ now >= edeadline[f]) => ENABLED WaiterFire(f)
    /\ (alive /\ epc[f] = "read") => ENABLED GetScale(f)
    /\ (alive /\ epc[f] = "write") => ENABLED UpdateScale(f)

(* C3: a scale-update never makes more than 100 GetScale and 100 UpdateScale
   calls; one that ends without a successful write and without a failed
   read has made exactly 100 of each, all writes failed, and has logged
   "unable to scale"; Execute's error stays nil and every other event's
   goroutine can still take its next step. *)
C3_RetryBudget ==
    \A e \in Events :
        /\ reads[e] <= MaxTries /\ writes[e] <= MaxTries
        /\ epc[e] = "exhausted" =>
              /\ reads[e] = MaxTries /\ writes[e] = MaxTries /\ try[e] = MaxTries
              /\ <<"unable to scale", e>> \in rlog
              /\ execErr = ""
        /\ <<"unable to scale", e>> \in rlog => writes[e] = MaxTries
        /\ (e = stuck /\ epc[e] \notin {"idle", "spawned", "waiting", "cancelled"}) =>
              \A f \in Events \ {e} : NotBlocked(f)

C3_Witness ==
    /\ stuck \in Events
    /\ epc[stuck] = "exhausted"
    /\ \E f \in Events \ {stuck} : epc[f] = "done" /\ replicas[Ev(f).dep] = Ev(f).replicas
    /\ opc = "returned"
    /\ execErr = ""

(* C4: once GetScale has failed for an event, the event is abandoned: it
   made no UpdateScale call after the failed read (one write per earlier
   read), it never makes another GetScale or UpdateScale call, Execute's
   error stays nil and the other events can still take their next step. *)
C4_ReadFailureAbandons ==
    /\ [](\A e \in EventIds : (e \in Events /\ ReadFailed(e)) =>
            /\ epc[e] = "abandoned"
            /\ writes[e] = reads[e] - 1
            /\ execErr = ""
            /\ \A f \in Events \ {e} : NotBlocked(f))
    /\ [][\A e \in EventIds : (e \in Events /\ ReadFailed(e)) =>
            /\ reads'[e] = reads[e]
            /\ writes'[e] = writes[e]
            /\ epc'[e] = epc[e]]_vars

C4_Witness ==
    \E e \in Events :
        /\ ReadFailed(e)
        /\ reads[e] = 2
        /\ writes[e] = 1
        /\ \E f \in Events \ {e} : epc[f] = "done" /\ reads[f] > 0
        /\ opc = "returned"
        /\ execErr = ""
        /\ ~ctxDone

(* C5: an event's scale-update is issued only when its offset has elapsed
   since r.start; a waiter that took the ctx.Done branch has issued nothing
   and never does; and a waiter whose timer has expired goes on to issue
   its scale-update unless the context is cancelled or the process ends. *)
C5_WaiterTiming ==
    /\ [](\A e \in EventIds : e \in Events =>
            /\ (Issued(e) \/ reads[e] > 0) => now >= start + Ev(e).time
            /\ epc[e] = "cancelled" => (reads[e] = 0 /\ writes[e] = 0 /\ ctxDone))
    /\ [][\A e \in EventIds : (e \in Events /\ epc[e] = "cancelled") =>
            epc'[e] = "cancelled"]_vars
    /\ \A e \in EventIds :
          (e \in Events /\ epc[e] = "waiting" /\ now >= edeadline[e])
             ~> (ctxDone \/ ~alive \/ (e \in Events /\ Issued(e)))

C5_Witness ==
    \E e \in Events :
        /\ Ev(e).time > 0
        /\ epc[e] = "done"
        /\ \E f \in Events \ {e} : epc[f] = "cancelled"

(* C7: when Execute has returned, on whatever path, a Delete call has been
   made for every deployment of the scenario, in order, and every Delete
   call that failed has been logged. *)
C7_CleanupAlways ==
    (opc = "returned" \/ (opc = "exited" /\ <<"fatal", "startup">> \notin rlog)) =>
        /\ Len(delAttempts) = scen.deps
        /\ \A i \in 1..Len(delAttempts) :
              /\ delAttempts[i][1] = i
              /\ ~delAttempts[i][2] => <<"deleting deployment", i>> \in rlog

C7_Witness ==
    /\ opc = "returned"
    /\ execErr = "creating cost monitor"
    /\ scen.deps = 2
    /\ delAttempts = <<<<1, FALSE>>, <<2, TRUE>>>>
    /\ cluster = {1}

(* C8, as claimed: when cm.Stop() runs, a Delete call has already been made
   for every deployment. *)
C8_CleanupBeforeStop == stoppedAt # -1 => stoppedAt = scen.deps

(* C9, as claimed: when the run aborts on a startup failure (scenario or
   client construction in main, or the cost monitor's construction with its
   pricing refresh), no deployment has been created. *)
C9_AbortBeforeCreate ==
    (<<"fatal", "startup">> \in rlog \/ execErr = "creating cost monitor") =>
        everCreated = {}

(* C15, as claimed: of two events with offsets a < b, the first UpdateScale
   of the event at a is issued before the first UpdateScale of the event at
   b, that is, when the earlier event issues its first write the later one
   has issued none. *)
C15_OffsetOrder ==
    [][\A a, b \in Events :
        (Ev(a).time < Ev(b).time /\ writes[a] = 0 /\ writes'[a] > 0)
            => writes[b] = 0]_vars

(***************************************************************************)
(* The cost monitor (scenario/costmonitor.go)                              *)
(*                                                                         *)
(* c.mu is a sync.RWMutex.  addNode, removeNode, updatePod and deletePod   *)
(* hold it exclusively and are one step each, taken when no reader is      *)
(* inside; the two samplers hold it shared, so a tick of logCost can fall  *)
(* between two steps of a tick of monitorPendingPods.                      *)
(***************************************************************************)
(* the on-demand price list NewCostMonitor loaded *)
OnDemandPrices == ("m5.large" :> 2) @@ ("c5.large" :> 3)

(* pprov.OnDemandPrice(instanceType): the price and whether it is known *)
OnDemandPrice(itype) ==
    IF itype \in DOMAIN OnDemandPrices
    THEN [price |-> OnDemandPrices[itype], ok |-> TRUE]
    ELSE [price |-> 0, ok |-> FALSE]

(* a notification of the node watch: the watch.EventType, the name of the
   node and its instance type label; an ERROR carries a Status, no node *)
NodeEv(t, n, it) == [type |-> t, name |-> n, itype |-> it]

(* a notification of the pod watch: the type, the UID and the phase *)
PodEv(t, u, ph) == [type |-> t, uid |-> u, phase |-> ph]

(* what the two watches deliver in a run: one node and one pod; two priced
   nodes; a node whose instance type changes to an unlisted one; an unlisted
   node that is deleted; an error notification before a node that is
   deleted; two pending
   pods; a pod that starts running; an error notification before a pod that
   is deleted *)
OneNodeOnePod ==
    [node |-> <<NodeEv("ADDED", "n1", "m5.large")>>,
     pod |-> <<PodEv("ADDED", "p1", "Pending")>>]

Feeds ==
    { OneNodeOnePod,
      [node |-> <<NodeEv("ADDED", "n1", "m5.large"), NodeEv("ADDED", "n2", "c5.large")>>,
       pod |-> <<>>],
      [node |-> <<NodeEv("ADDED", "n1", "m5.large"),
                  NodeEv("MODIFIED", "n1", "x9.unlisted")>>,
       pod |-> <<>>],
      [node |-> <<NodeEv("ADDED", "n1", "x9.unlisted"),
                  NodeEv("DELETED", "n1", "x9.unlisted")>>,
       pod |-> <<>>],
      [node |-> <<NodeEv("ERROR", "", ""), NodeEv("ADDED", "n2", "c5.large"),
                  NodeEv("DELETED", "n2", "c5.large")>>,
       pod |-> <<>>],
      [node |-> <<>>,
       pod |-> <<PodEv("ADDED", "p1", "Pending"), PodEv("ADDED", "p2", "Pending")>>],
      [node |-> <<>>,
       pod |-> <<PodEv("ADDED", "p1", "Pending"), PodEv("MODIFIED", "p1", "Running")>>],
      [node |-> <<>>,
       pod |-> <<PodEv("ERROR", "", ""), PodEv("ADDED", "p1", "Pending"),
                 PodEv("DELETED", "p1", "Pending")>>] }

(* the watch hands its next notification to the subscriber *)
Deliver(feed) ==
    [done |-> Append(feed.done, Head(feed.todo)), todo |-> Tail(feed.todo)]

(* an entry that is there is kept *)
PutIfAbsent(m, k, v) ==
    [x \in DOMAIN m \cup {k} |-> IF x \in DOMAIN m THEN m[x] ELSE v]

(* m[k] = v on a Go map *)
Put(m, k, v) == [x \in DOMAIN m \cup {k} |-> IF x = k THEN v ELSE m[x]]

(* delete(m, k) on a Go map *)
Delete(m, k) == [x \in DOMAIN m \ {k} |-> m[x]]

(* m[k] on a Go map of numbers: the zero value when k is missing *)
Lookup(m, k) == IF k \in DOMAIN m THEN m[k] ELSE 0

(* no goroutine is inside c.mu.RLock() .. c.mu.RUnlock() *)
NoReader == fpc # "counting"

(* --- monitorNodes --- *)

(* costmonitor.go:82-84: Nodes().Watch(ctx, ...); a watch cannot be opened
   on a cancelled context, the request fails with the context's error *)
NodeWatchOpen ==
    /\ alive
    /\ npc = "open"
    /\ \E ok \in BOOLEAN :
        /\ ok => ~ctxDone
        /\ npc' = IF ok THEN "watching" ELSE "openFailed"
    /\ rlog' = rlog \cup {<<"starting node watch", 0>>}
    /\ UNCHANGED <<ppc, fpc, spc, trackVars, accVars, sinkVars, budgetVars>>
    /\ UNCHANGED outsideMonitor

(* a subscriber that gives up after a failed Watch *)
AfterWatchErrorGivesUp == "returned"

(* costmonitor.go:87, 123: continue, the loop calls Watch again *)
AfterWatchError == "open"

(* costmonitor.go:85-88: the error is logged and the loop continues *)
NodeWatchRetry ==
    /\ alive
    /\ npc = "openFailed"
    /\ npc' = AfterWatchError
    /\ rlog' = rlog \cup {<<"watching nodes", 0>>}
    /\ UNCHANGED <<ppc, fpc, spc, trackVars, accVars, sinkVars, budgetVars>>
    /\ UNCHANGED outsideMonitor

(* a node is tracked only if its price is known *)
addNodeIfPriced(tracked, name, itype) ==
    IF OnDemandPrice(itype).ok THEN Put(tracked, name, itype) ELSE tracked

(* costmonitor.go:224 addNode, on c.nodes: c.nodes[node.Name] = node *)
addNodeEntry(tracked, name, itype) == Put(tracked, name, itype)

(* the price of a removed node stays *)
removeNodeKeepsPrice(prices, name) == prices

(* costmonitor.go:238 removeNode, on c.nodePrices *)
removeNodePrice(prices, name) == Delete(prices, name)

(* costmonitor.go:221-232 addNode, on c.nodePrices *)
addNodePrice(prices, name, itype) ==
    IF OnDemandPrice(itype).ok
    THEN Put(prices, name, OnDemandPrice(itype).price)
    ELSE prices

(* costmonitor.go:93, 98-108: a notification arrives on the node watch *)
NodeNotify ==
    /\ alive
    /\ npc = "watching"
    /\ nfeed.todo # <<>>
    /\ nfeed' = Deliver(nfeed)
    /\ LET ev == Head(nfeed.todo)
       IN  CASE ev.type \in {"ADDED", "MODIFIED"} ->
                    /\ NoReader
                    /\ nodes' = addNodeEntry(nodes, ev.name, ev.itype)
                    /\ nodePrices' = addNodePrice(nodePrices, ev.name, ev.itype)
                    /\ rlog' = IF OnDemandPrice(ev.itype).ok THEN rlog
                               ELSE rlog \cup {<<"unable to find node price", ev.name>>}
             [] ev.type = "DELETED" ->
                    /\ NoReader
                    /\ nodes' = Delete(nodes, ev.name)
                    /\ nodePrices' = removeNodePrice(nodePrices, ev.name)
                    /\ UNCHANGED rlog
             [] OTHER ->
                    UNCHANGED <<nodes, nodePrices, rlog>>
    /\ UNCHANGED <<mpcVars, pods, accVars, sinkVars, fleft, sleft, pfeed>>
    /\ UNCHANGED outsideMonitor

(* costmonitor.go:94-97: the result channel is closed, the watch is reopened *)
NodeWatchClosed ==
    /\ alive
    /\ npc = "watching"
    /\ npc' = "open"
    /\ rlog' = rlog \cup {<<"restarting node watch", 0>>}
    /\ UNCHANGED <<ppc, fpc, spc, trackVars, accVars, sinkVars, budgetVars>>
    /\ UNCHANGED outsideMonitor

(* costmonitor.go:109-110: case <-ctx.Done(): return *)
NodeWatchReturn ==
    /\ alive
    /\ npc = "watching"
    /\ ctxDone
    /\ npc' = "returned"
    /\ UNCHANGED <<ppc, fpc, spc, trackVars, accVars, sinkVars, budgetVars, rlog>>
    /\ UNCHANGED outsideMonitor

(* --- monitorPods --- *)

(* costmonitor.go:118-120: Pods("default").Watch(ctx, ...) *)
PodWatchOpen ==
    /\ alive
    /\ ppc = "open"
    /\ \E ok \in BOOLEAN :
        /\ ok => ~ctxDone
        /\ ppc' = IF ok THEN "watching" ELSE "openFailed"
    /\ rlog' = rlog \cup {<<"starting pod watch", 0>>}
    /\ UNCHANGED <<npc, fpc, spc, trackVars, accVars, sinkVars, budgetVars>>
    /\ UNCHANGED outsideMonitor

(* costmonitor.go:121-124 *)
PodWatchRetry ==
    /\ alive
    /\ ppc = "openFailed"
    /\ ppc' = AfterWatchError
    /\ rlog' = rlog \cup {<<"watching pods", 0>>}
    /\ UNCHANGED <<npc, fpc, spc, trackVars, accVars, sinkVars, budgetVars>>
    /\ UNCHANGED outsideMonitor

(* costmonitor.go:129, 134-144, updatePod and deletePod (249-259) *)
PodNotify ==
    /\ alive
    /\ ppc = "watching"
    /\ pfeed.todo # <<>>
    /\ pfeed' = Deliver(pfeed)
    /\ LET ev == Head(pfeed.todo)
       IN  CASE ev.type \in {"ADDED", "MODIFIED"} ->
                    /\ NoReader
                    /\ pods' = Put(pods, ev.uid, ev.phase)
             [] ev.type = "DELETED" ->
                    /\ NoReader
                    /\ pods' = Delete(pods, ev.uid)
             [] OTHER ->
                    UNCHANGED pods
    /\ UNCHANGED <<mpcVars, nodes, nodePrices, accVars, sinkVars, fleft, sleft, nfeed,
                   rlog>>
    /\ UNCHANGED outsideMonitor

(* costmonitor.go:130-133 *)
PodWatchClosed ==
    /\ alive
    /\ ppc = "watching"
    /\ ppc' = "open"
    /\ rlog' = rlog \cup {<<"restarting pod watch", 0>>}
    /\ UNCHANGED <<npc, fpc, spc, trackVars, accVars, sinkVars, budgetVars>>
    /\ UNCHANGED outsideMonitor

(* costmonitor.go:145-146 *)
PodWatchReturn ==
    /\ alive
    /\ ppc = "watching"
    /\ ctxDone
    /\ ppc' = "returned"
    /\ UNCHANGED <<npc, fpc, spc, trackVars, accVars, sinkVars, budgetVars, rlog>>
    /\ UNCHANGED outsideMonitor

(* --- monitorPendingPods --- *)

(* a tick that starts counting from the count of the tick before *)
KeepCount(count) == count

(* costmonitor.go:159: c.pendingPods = 0 *)
ResetCount(count) == 0

(* costmonitor.go:157-159: a tick; c.mu.RLock(); c.pendingPods = 0 *)
PendingTickBegin ==
    /\ alive
    /\ fpc = "select"
    /\ fleft > 0
    /\ fleft' = fleft - 1
    /\ fpc' = "counting"
    /\ pendingPods' = ResetCount(pendingPods)
    /\ fseen' = {}
    /\ UNCHANGED <<npc, ppc, spc, trackVars, pendingPodSeconds, cumulativeCost,
                   sinkVars, sleft, nfeed, pfeed, rlog>>
    /\ UNCHANGED outsideMonitor

(* costmonitor.go:160-164: one iteration of the range over c.pods *)
PendingCount ==
    /\ alive
    /\ fpc = "counting"
    /\ \E uid \in DOMAIN pods \ fseen :
        /\ fseen' = fseen \cup {uid}
        /\ pendingPods' = IF pods[uid] = "Pending" THEN pendingPods + 1 ELSE pendingPods
    /\ UNCHANGED <<mpcVars, trackVars, pendingPodSeconds, cumulativeCost, sinkVars,
                   budgetVars, rlog>>
    /\ UNCHANGED outsideMonitor

(* a tick that assigns the pending time of this tick *)
SetPendingSeconds(seconds, count) == count

(* costmonitor.go:165: c.pendingPodSeconds += float64(c.pendingPods) * 0.25,
   in quarter seconds *)
AddPendingSeconds(seconds, count) == seconds + count

(* costmonitor.go:165-166: the range is over, accumulate, c.mu.RUnlock() *)
PendingTickEnd ==
    /\ alive
    /\ fpc = "counting"
    /\ fseen = DOMAIN pods
    /\ pendingPodSeconds' = AddPendingSeconds(pendingPodSeconds, pendingPods)
    /\ fseen' = {}
    /\ fpc' = "select"
    /\ UNCHANGED <<npc, ppc, spc, trackVars, pendingPods, cumulativeCost, sinkVars,
                   budgetVars, rlog>>
    /\ UNCHANGED outsideMonitor

(* costmonitor.go:167-168 *)
PendingReturn ==
    /\ alive
    /\ fpc = "select"
    /\ ctxDone
    /\ fpc' = "returned"
    /\ UNCHANGED <<npc, ppc, spc, trackVars, accVars, sinkVars, budgetVars, rlog>>
    /\ UNCHANGED outsideMonitor

(* --- logCost --- *)

(* costmonitor.go:174-183: the ticker is made and the header row is written *)
LogCostHeader ==
    /\ alive
    /\ spc = "start"
    /\ spc' = "select"
    /\ csvBuf' = CsvWrite(csvBuf, csvErr)
    /\ UNCHANGED <<npc, ppc, fpc, trackVars, accVars, csvErr, fileRecs, fileClosed,
                   lastRow, budgetVars, rlog>>
    /\ UNCHANGED outsideMonitor

RECURSIVE SumPrices(_, _)
(* costmonitor.go:193-196: the sum of c.nodePrices[n.Name] over c.nodes *)
SumPrices(names, prices) ==
    IF names = {} THEN 0
    ELSE LET n == CHOOSE x \in names : TRUE
         IN  Lookup(prices, n) + SumPrices(names \ {n}, prices)

(* a tick that assigns the cost of this tick *)
SetCost(cost, perHourCost) == perHourCost

(* costmonitor.go:198: c.cumulativeCost += perHourCost / 3600.0, in 1/3600 *)
AddCost(cost, perHourCost) == cost + perHourCost

(* costmonitor.go:200-209: the row of a tick *)
Row(perHourCost, cost) ==
    [time |-> now - start,
     nodes |-> Cardinality(DOMAIN nodes),
     perHourCost |-> perHourCost,
     cumulativeCost |-> cost,
     pods |-> Cardinality(DOMAIN pods),
     pendingPods |-> pendingPods,
     pendingPodSeconds |-> pendingPodSeconds]

(* costmonitor.go:190-216: a tick of the 1s ticker, under c.mu.RLock() *)
LogCostTick ==
    /\ alive
    /\ spc = "select"
    /\ sleft > 0
    /\ sleft' = sleft - 1
    /\ LET perHourCost == SumPrices(DOMAIN nodes, nodePrices)
           cost == AddCost(cumulativeCost, perHourCost)
           buf == CsvWrite(csvBuf, csvErr)
           flushed == CsvFlush(buf, csvErr, fileRecs, fileClosed)
       IN  /\ cumulativeCost' = cost
           /\ lastRow' = Row(perHourCost, cost)
           /\ csvBuf' = flushed[1]
           /\ csvErr' = flushed[2]
           /\ fileRecs' = flushed[3]
    /\ UNCHANGED <<mpcVars, trackVars, pendingPods, pendingPodSeconds, fseen, fileClosed,
                   fleft, nfeed, pfeed, rlog>>
    /\ UNCHANGED outsideMonitor

(* costmonitor.go:188-189 *)
LogCostReturn ==
    /\ alive
    /\ spc = "select"
    /\ ctxDone
    /\ spc' = "returned"
    /\ UNCHANGED <<npc, ppc, fpc, trackVars, accVars, sinkVars, budgetVars, rlog>>
    /\ UNCHANGED outsideMonitor

(***************************************************************************)
(* The monitor while Execute waits.  The initial states are the state in   *)
(* which Execute has created the deployments of the scenario, started the  *)
(* monitor and the event goroutines and sits in its select                 *)
(* (runner.go:68); the orchestrator and the event goroutines take no step  *)
(* and the clock, which the monitor reads for the time column only, stands *)
(* still.                                                                  *)
(***************************************************************************)
ExecuteWaiting(s) ==
    /\ alive = TRUE
    /\ ctxDone = FALSE
    /\ now = 0
    /\ scen = s
    /\ stuck = 0
    /\ opc = "wait"
    /\ idx = s.deps + 1
    /\ defers = <<"cleanup", "stop">>
    /\ execErr = ""
    /\ start = 0
    /\ waitDeadline = s.duration
    /\ cmState = "started"
    /\ stoppedAt = -1
    /\ epc = [e \in Events |-> "spawned"]
    /\ edeadline = [e \in Events |-> 0]
    /\ try = [e \in Events |-> 0]
    /\ cluster = Deps
    /\ everCreated = Deps
    /\ replicas = [d \in Deps |-> 0]
    /\ reads = [e \in Events |-> 0]
    /\ writes = [e \in Events |-> 0]
    /\ delAttempts = <<>>
    /\ rlog = {<<"starting scenario", 0>>}

(* the goroutines of cm.Start (costmonitor.go:241-247) *)
Started == <<"open", "open", "select", "start">>

MonInit ==
    /\ ExecuteWaiting(SharedWorkload)
    /\ OpenIdle
    /\ \E feed \in Feeds :
        MonitorAt(Started, MaxFastTicks, MaxSlowTicks, feed.node, feed.pod)
    /\ clusterNodes = {}

NodeStep == NodeWatchOpen \/ NodeWatchRetry \/ NodeNotify \/ NodeWatchClosed \/ NodeWatchReturn

PodStep == PodWatchOpen \/ PodWatchRetry \/ PodNotify \/ PodWatchClosed \/ PodWatchReturn

PendingStep == PendingTickBegin \/ PendingCount \/ PendingTickEnd \/ PendingReturn

LogCostStep == LogCostHeader \/ LogCostTick \/ LogCostReturn

MonNext ==
    \/ Cancel
    \/ NodeWatchOpen
    \/ NodeWatchRetry
    \/ NodeNotify
    \/ NodeWatchClosed
    \/ NodeWatchReturn
    \/ PodWatchOpen
    \/ PodWatchRetry
    \/ PodNotify
    \/ PodWatchClosed
    \/ PodWatchReturn
    \/ PendingTickBegin
    \/ PendingCount
    \/ PendingTickEnd
    \/ PendingReturn
    \/ LogCostHeader
    \/ LogCostTick
    \/ LogCostReturn

SpecMon == MonInit /\ [][MonNext]_vars

(***************************************************************************)
(* The monitor and the end of a run that is interrupted: Execute leaves    *)
(* its select on ctx.Done, runs its defers and returns to main.  Every     *)
(* goroutine that can take a step eventually takes one; nothing obliges    *)
(* the caller of Execute to end the process.                               *)
(***************************************************************************)
FairMonInit ==
    /\ ExecuteWaiting(SharedWorkload)
    /\ OpenIdle
    /\ MonitorAt(Started, 1, 1, OneNodeOnePod.node, OneNodeOnePod.pod)
    /\ clusterNodes = {}

ExecuteEnd ==
    \/ WaitInterrupted
    \/ RunDeferredStop
    \/ RunDeferredCleanup
    \/ CleanupDep
    \/ ExecuteReturn

FairMonNext ==
    \/ MonNext
    \/ WaitInterrupted
    \/ RunDeferredStop
    \/ RunDeferredCleanup
    \/ CleanupDep
    \/ ExecuteReturn
    \/ Exit

FairSpecMon ==
    /\ FairMonInit
    /\ [][FairMonNext]_vars
    /\ WF_vars(ExecuteEnd)
    /\ WF_vars(NodeStep)
    /\ WF_vars(PodStep)
    /\ WF_vars(PendingStep)
    /\ WF_vars(LogCostStep)

(***************************************************************************)
(* The two subscribers and the end of a run that is interrupted.  The      *)
(* samplers, which the subscribers wait for only inside addNode,           *)
(* removeNode, updatePod and deletePod, take no step.                      *)
(***************************************************************************)
FairWatchInit ==
    /\ ExecuteWaiting(SharedWorkload)
    /\ OpenIdle
    /\ MonitorAt(Started, 0, 0, OneNodeOnePod.node, OneNodeOnePod.pod)
    /\ clusterNodes = {}

FairWatchNext ==
    \/ Cancel
    \/ NodeWatchOpen
    \/ NodeWatchRetry
    \/ NodeNotify
    \/ NodeWatchClosed
    \/ NodeWatchReturn
    \/ PodWatchOpen
    \/ PodWatchRetry
    \/ PodNotify
    \/ PodWatchClosed
    \/ PodWatchReturn
    \/ WaitInterrupted
    \/ RunDeferredStop
    \/ RunDeferredCleanup
    \/ CleanupDep
    \/ ExecuteReturn
    \/ Exit

FairSpecWatch ==
    /\ FairWatchInit
    /\ [][FairWatchNext]_vars
    /\ WF_vars(ExecuteEnd)
    /\ WF_vars(NodeStep)
    /\ WF_vars(PodStep)

(***************************************************************************)
(* logCost, the node subscriber and the end of a run, by interruption or   *)
(* because the duration of the scenario has elapsed.  No pod is reported   *)
(* and the 250ms ticker does not tick.                                     *)
(***************************************************************************)
StopInit ==
    /\ ExecuteWaiting(SharedWorkload)
    /\ OpenIdle
    /\ MonitorAt(Started, 0, MaxSlowTicks, OneNodeOnePod.node, <<>>)
    /\ clusterNodes = {}

StopNext ==
    \/ Tick
    \/ Cancel
    \/ NodeWatchOpen
    \/ NodeWatchRetry
    \/ NodeNotify
    \/ NodeWatchClosed
    \/ NodeWatchReturn
    \/ LogCostHeader
    \/ LogCostTick
    \/ LogCostReturn
    \/ WaitElapsed
    \/ WaitInterrupted
    \/ RunDeferredStop
    \/ RunDeferredCleanup
    \/ CleanupDep
    \/ ExecuteReturn
    \/ Exit

SpecStop == StopInit /\ [][StopNext]_vars

(***************************************************************************)
(* The node subscriber against a cluster whose nodes go away.  The stream  *)
(* of a watch follows the cluster: Nodes().Watch without a resource        *)
(* version begins with an ADDED notification for every node that exists,   *)
(* a node deleted while the stream is open is announced on it, and a node  *)
(* deleted while no stream is open is announced to nobody.  A stream ends  *)
(* after it has delivered what it announced.  nfeed holds the stream of    *)
(* the watch that is open.                                                 *)
(***************************************************************************)

NodeNames == {"n1", "n2", "n3"}

NodeType == "m5.large"

RECURSIVE ListedAdds(_)
(* the notifications a new stream begins with *)
ListedAdds(names) ==
    IF names = {} THEN <<>>
    ELSE LET n == CHOOSE x \in names : TRUE
         IN  <<NodeEv("ADDED", n, NodeType)>> \o ListedAdds(names \ {n})

(* costmonitor.go:82-84: Nodes().Watch(ctx, ...) succeeds and the stream
   lists the nodes of the cluster *)
NodeWatchOpenListing ==
    /\ alive
    /\ npc = "open"
    /\ ~ctxDone
    /\ npc' = "watching"
    /\ nfeed' = [done |-> <<>>, todo |-> ListedAdds(clusterNodes)]
    /\ rlog' = rlog \cup {<<"starting node watch", 0>>}
    /\ UNCHANGED <<ppc, fpc, spc, trackVars, accVars, sinkVars, fleft, sleft, pfeed>>
    /\ UNCHANGED outsideMonitor

(* costmonitor.go:94-97: the stream has delivered everything and ends *)
NodeWatchDrained == nfeed.todo = <<>> /\ NodeWatchClosed

(* a node leaves the cluster; the open stream, if there is one, announces it *)
ClusterNodeDeleted ==
    /\ alive
    /\ \E n \in clusterNodes :
        /\ clusterNodes' = clusterNodes \ {n}
        /\ nfeed' = IF npc = "watching"
                    THEN [nfeed EXCEPT !.todo = Append(@, NodeEv("DELETED", n, NodeType))]
                    ELSE nfeed
    /\ UNCHANGED <<alive, ctxDone, now, scen, stuck, orchVars, evVars, apiVars, rlog,
                   valVars, mpcVars, trackVars, accVars, sinkVars, fleft, sleft, pfeed>>

ResyncInit ==
    /\ ExecuteWaiting(SharedWorkload)
    /\ OpenIdle
    /\ MonitorAt(Started, 0, 0, <<>>, <<>>)
    /\ clusterNodes \in SUBSET NodeNames

ResyncNext ==
    \/ NodeWatchOpenListing
    \/ NodeNotify
    \/ NodeWatchDrained
    \/ ClusterNodeDeleted

SpecResync == ResyncInit /\ [][ResyncNext]_vars

(***************************************************************************)
(* Properties of the monitor                                               *)
(***************************************************************************)

(* C1: cumulativeCost and pendingPodSeconds never decrease, and each row
   logCost writes carries values greater than or equal to those of the row
   before it. *)
C1_AccumulatorsMonotone ==
    [][/\ cumulativeCost' >= cumulativeCost
       /\ pendingPodSeconds' >= pendingPodSeconds
       /\ (lastRow # NoRow /\ lastRow' # lastRow) =>
            /\ lastRow'.cumulativeCost >= lastRow.cumulativeCost
            /\ lastRow'.pendingPodSeconds >= lastRow.pendingPodSeconds]_vars

(* two rows are written, both sums have grown between them, with
   notifications of both watches between the ticks *)
C1_Witness ==
    /\ sleft = 0
    /\ fleft = 0
    /\ lastRow # NoRow
    /\ lastRow.cumulativeCost > lastRow.perHourCost
    /\ lastRow.perHourCost > 0
    /\ lastRow.pendingPodSeconds > 1

MonitorReturned ==
    /\ npc = "returned"
    /\ ppc = "returned"
    /\ fpc = "returned"
    /\ spc = "returned"

(* C6, as claimed for the four goroutines of the monitor: once the context
   is cancelled, each of them eventually returns (unless the process ends
   first). *)
C6_CancelReturnsAll == ctxDone ~> (~alive \/ MonitorReturned)

(* C11: when the node watch delivers ADDED for a node that is not tracked
   and the price list has no entry for its instance type, the node is
   tracked with the notification's object, it has no price (a lookup gives
   zero), the subscriber stays in its loop and Execute is not touched; and
   in every row logCost writes, the per hour cost is the sum of the recorded
   prices, so that a tracked node without a price adds nothing. *)
C11_PriceMissTracked ==
    [][/\ (nfeed.todo # <<>> /\ nfeed' # nfeed) =>
            LET ev == Head(nfeed.todo)
            IN  (/\ ev.type = "ADDED"
                 /\ ev.name \notin DOMAIN nodes
                 /\ ~OnDemandPrice(ev.itype).ok) =>
                    /\ ev.name \in DOMAIN nodes'
                    /\ nodes'[ev.name] = ev.itype
                    /\ Lookup(nodePrices', ev.name) = 0
                    /\ npc' = "watching"
                    /\ alive'
                    /\ execErr' = execErr
                    /\ opc' = opc
       /\ (sleft' # sleft) =>
            /\ lastRow'.nodes = Cardinality(DOMAIN nodes)
            /\ lastRow'.perHourCost = SumPrices(DOMAIN nodePrices, nodePrices)]_vars

(* an unlisted node was added, the subscriber is still watching, and a row
   written since counts the node and shows a per hour cost of zero *)
C11_Witness ==
    /\ "n1" \in DOMAIN nodes
    /\ nodes["n1"] = "x9.unlisted"
    /\ <<"unable to find node price", "n1">> \in rlog
    /\ npc = "watching"
    /\ lastRow # NoRow
    /\ lastRow.nodes = 1
    /\ lastRow.perHourCost = 0

(* C12: in every state, every key of c.nodePrices is the name of a node in
   c.nodes. *)
C12_PricesOfTrackedNodes == DOMAIN nodePrices \subseteq DOMAIN nodes

(* a priced node was added and then deleted, and its price went with it *)
C12_Witness ==
    /\ \E i \in 1..Len(nfeed.done) :
          /\ nfeed.done[i].type = "DELETED"
          /\ OnDemandPrice(nfeed.done[i].itype).ok
          /\ <<"unable to find node price", nfeed.done[i].name>> \notin rlog
    /\ nodes = <<>>
    /\ nodePrices = <<>>

(* the pods of the tracked set that are pending *)
PendingIn(tracked) == Cardinality({u \in DOMAIN tracked : tracked[u] = "Pending"})

(* C13: every tick of monitorPendingPods adds to pendingPodSeconds exactly
   the number of pending pods of the tracked set, in quarter seconds, so
   that N ticks during which that number stays at count add N * count
   quarter seconds; the tracked set does not change while the tick counts,
   and a tick of logCost changes neither the count nor the sum. *)
C13_PendingSecondsExact ==
    [][/\ (fpc = "counting" /\ fpc' = "select") =>
            /\ pendingPods = PendingIn(pods)
            /\ pendingPodSeconds' = pendingPodSeconds + PendingIn(pods)
       /\ fpc = "counting" => pods' = pods
       /\ (sleft' # sleft) =>
            /\ pendingPods' = pendingPods
            /\ pendingPodSeconds' = pendingPodSeconds]_vars

(* two pods were pending during both ticks, a row was written meanwhile,
   and the sum is 2 ticks * 2 pods *)
C13_Witness ==
    /\ fleft = 0
    /\ fpc = "select"
    /\ PendingIn(pods) = 2
    /\ sleft < MaxSlowTicks
    /\ pendingPodSeconds = MaxFastTicks * 2

(* every notification delivered so far carries a listed instance type *)
KnownPrices ==
    \A i \in 1..Len(nfeed.done) :
        nfeed.done[i].type = "ERROR" \/ OnDemandPrice(nfeed.done[i].itype).ok

RECURSIVE ListedSum(_)
(* the sum of the listed prices of the instance types of the tracked nodes *)
ListedSum(tracked) ==
    IF DOMAIN tracked = {} THEN 0
    ELSE LET n == CHOOSE x \in DOMAIN tracked : TRUE
         IN  OnDemandPrice(tracked[n]).price + ListedSum(Delete(tracked, n))

(* C14: as long as the notifications carry listed instance types, every
   tick of logCost adds to cumulativeCost exactly the sum of the listed
   prices of the nodes tracked at that tick (in 1/3600 of the price unit,
   for the one second of the tick), and nothing else changes the cost; the
   cost after the last tick is the sum of these over the ticks. *)
C14_CostIntegrates ==
    [][IF sleft' # sleft
       THEN KnownPrices =>
                /\ cumulativeCost' = cumulativeCost + ListedSum(nodes)
                /\ lastRow'.cumulativeCost = cumulativeCost'
       ELSE cumulativeCost' = cumulativeCost]_vars

(* one tick with the node of price 2, one tick with the nodes of price 2
   and 3 *)
C14_Witness ==
    /\ sleft = 0
    /\ DOMAIN nodes = {"n1", "n2"}
    /\ lastRow # NoRow
    /\ lastRow.perHourCost = 5
    /\ cumulativeCost = 7

(* C16: a subscriber returns only when the context is cancelled; a step of
   a subscriber, a failed Watch and a closed stream included, changes nothing
   of Execute and does not end the process; after a failed Watch the loop
   comes back to the Watch call, as it does in one step when the stream is
   closed, and a loop at the Watch call calls it (unless the process ends);
   no count of reopens is kept. *)
C16_SubscribersReopen ==
    /\ [](npc = "returned" => ctxDone)
    /\ [](ppc = "returned" => ctxDone)
    /\ [][(npc' # npc \/ ppc' # ppc) =>
            /\ UNCHANGED <<orchVars, alive>>
            /\ (npc' # npc /\ npc = "openFailed") => npc' = "open"
            /\ (ppc' # ppc /\ ppc = "openFailed") => ppc' = "open"
            /\ (npc' # npc /\ npc = "watching" /\ ~ctxDone) => npc' = "open"
            /\ (ppc' # ppc /\ ppc = "watching" /\ ~ctxDone) => ppc' = "open"]_vars
    /\ (npc = "openFailed") ~> (npc = "open" \/ ~alive)
    /\ (ppc = "openFailed") ~> (ppc = "open" \/ ~alive)
    /\ (npc = "open") ~> (npc \in {"watching", "openFailed"} \/ ~alive)
    /\ (ppc = "open") ~> (ppc \in {"watching", "openFailed"} \/ ~alive)

(* the node watch failed to open, was opened, was closed and is open again,
   without cancellation *)
C16_Witness ==
    /\ ~ctxDone
    /\ npc = "watching"
    /\ <<"watching nodes", 0>> \in rlog
    /\ <<"restarting node watch", 0>> \in rlog
    /\ opc = "wait"

(* the notifications delivered for a key: those of seq that carry an object
   (ADDED, MODIFIED, DELETED) whose field f is key *)
DeliveredFor(seq, f, key) ==
    {i \in 1..Len(seq) : seq[i].type # "ERROR" /\ seq[i][f] = key}

(* the last of them; there is at least one *)
LastFor(seq, f, key) ==
    seq[CHOOSE i \in DeliveredFor(seq, f, key) :
            \A j \in DeliveredFor(seq, f, key) : j <= i]

(* the tracked set holds key exactly if the last notification delivered for
   it is ADDED or MODIFIED, and then holds what that notification carries
   in its field v *)
LastWriterWins(tracked, seq, f, v) ==
    /\ \A key \in DOMAIN tracked : DeliveredFor(seq, f, key) # {}
    /\ \A i \in 1..Len(seq) :
        seq[i].type # "ERROR" =>
            LET key == seq[i][f]
                last == LastFor(seq, f, key)
            IN  /\ key \in DOMAIN tracked <=> last.type \in {"ADDED", "MODIFIED"}
                /\ key \in DOMAIN tracked => tracked[key] = last[v]

(* C17: after the notifications a watch has delivered so far, a node name
   (a pod UID) is tracked if and only if the last notification delivered
   for it is ADDED or MODIFIED, and the tracked entry is the object of that
   notification. *)
C17_LastWriterWins ==
    /\ LastWriterWins(nodes, nfeed.done, "name", "itype")
    /\ LastWriterWins(pods, pfeed.done, "uid", "phase")

(* the node was added with one instance type and modified to another: the
   tracked entry is the one of the modification *)
C17_Witness ==
    /\ Len(nfeed.done) = 2
    /\ nfeed.done[1].type = "ADDED"
    /\ nfeed.done[2].type = "MODIFIED"
    /\ nfeed.done[1].itype # nfeed.done[2].itype
    /\ nodes = ("n1" :> "x9.unlisted")

(* C18, as claimed: when the last notification delivered for a node is ADDED
   or MODIFIED, the node's entry in c.nodePrices is the listed price of the
   instance type of that notification, and there is no entry if the type is
   not listed. *)
C18_PriceOfLastNotification ==
    \A i \in 1..Len(nfeed.done) :
        LET last == LastFor(nfeed.done, "name", nfeed.done[i].name)
        IN  (nfeed.done[i].type # "ERROR" /\ last.type \in {"ADDED", "MODIFIED"}) =>
                IF OnDemandPrice(last.itype).ok
                THEN /\ last.name \in DOMAIN nodePrices
                     /\ nodePrices[last.name] = OnDemandPrice(last.itype).price
                ELSE last.name \notin DOMAIN nodePrices

(* C19, as claimed: once cm.Stop() has run, no step appends a record to the
   file or changes cumulativeCost or pendingPodSeconds. *)
C19_NoTickAfterStop ==
    [][cmState = "stopped" =>
        /\ fileRecs' = fileRecs
        /\ cumulativeCost' = cumulativeCost
        /\ pendingPodSeconds' = pendingPodSeconds]_vars

(* C21, as claimed: the pending-pod count of a row written by logCost is a
   count that a completed tick of monitorPendingPods produced, or the initial
   0.  A completed tick adds the count it produced to c.pendingPodSeconds
   (costmonitor.go:165) and nothing lowers that sum, so a count produced by a
   completed tick never exceeds the pendingPodSeconds of the same row: a row
   whose count does was read between the reset and the end of the recount. *)
C21_RowCountOfCompletedTick ==
    lastRow # NoRow => lastRow.pendingPods <= lastRow.pendingPodSeconds

(* the stream that is open follows a stream that ended, and it has delivered
   an ADDED notification for every node that is in the cluster *)
Resynced ==
    /\ npc = "watching"
    /\ <<"restarting node watch", 0>> \in rlog
    /\ \A n \in clusterNodes :
        \E i \in 1..Len(nfeed.done) :
            nfeed.done[i].type = "ADDED" /\ nfeed.done[i].name = n

(* the open stream still has to deliver the deletion of the node *)
DeletionAnnounced(n) ==
    \E i \in 1..Len(nfeed.todo) :
        nfeed.todo[i].type = "DELETED" /\ nfeed.todo[i].name = n

(* C22, as claimed: once the node watch has been reopened and the new stream
   has delivered an ADDED notification for every node in the cluster, c.nodes
   holds no node that was deleted while no watch was open.  A deletion made
   while a stream is open is announced on that stream and delivered before
   the stream ends, so a tracked node that is not in the cluster and whose
   deletion is not waiting on the open stream was deleted while no watch was
   open. *)
C22_ResyncDropsDeleted ==
    Resynced =>
        \A n \in DOMAIN nodes : n \in clusterNodes \/ DeletionAnnounced(n)

(***************************************************************************)
(* scenario.Open and Scenario.Validate (runner.go:203-278).  Durations are *)
(* in seconds.  NoRepeat is a nil RepeatAfter.                             *)
(***************************************************************************)
NoRepeat == -1

InOffsets == {0, 5}
InDurations == {0, 20, 30}
InRepeats == {NoRepeat, 0, 10}
InNames == {"", "test"}
InDepNames == {"a", "b"}
InSelectors == {"none", "app=x", "app in ("}

SeqsUpTo(S, n) == UNION { [1..k -> S] : k \in 0..n }

InEvents == [time : InOffsets, deployment : InDepNames]

Inputs ==
    [ decoded : {TRUE},
      decodeErr : BOOLEAN,
      name : InNames,
      duration : InDurations,
      deployments : SeqsUpTo(InDepNames, MaxInDeps),
      repeatAfter : InRepeats,
      events : SeqsUpTo(InEvents, MaxInEvents),
      nodeSelector : InSelectors ]

(* metav1.ParseToLabelSelector accepts the selector *)
SelectorParses(sel) == sel # "app in ("

NoDuplicateCheck(deps) == FALSE

(* runner.go:233-240: len(uniqueDeps) != len(s.Deployments) *)
DuplicateDeployments(deps) ==
    Cardinality({ deps[i] : i \in 1..Len(deps) }) # Len(deps)

(* runner.go:242-249: some event names a deployment that is not declared *)
UnknownDeployment(s) ==
    \E i \in 1..Len(s.events) :
        s.events[i].deployment \notin { s.deployments[j] : j \in 1..Len(s.deployments) }

(* runner.go:254-259: the largest event offset, starting from 0 *)
RECURSIVE LatestOffset(_, _)
LatestOffset(evs, i) ==
    IF i = 0 THEN 0
    ELSE LET rest == LatestOffset(evs, i - 1)
         IN  IF evs[i].time > rest THEN evs[i].time ELSE rest

(* runner.go:263-268: one pass over s.Events, nextStart growing by each
   event's own offset *)
RECURSIVE ReplayOnce(_, _, _, _)
ReplayOnce(evs, i, nextStart, out) ==
    IF i > Len(evs) THEN [next |-> nextStart, out |-> out]
    ELSE LET t == nextStart + evs[i].time
         IN  ReplayOnce(evs, i + 1, t, Append(out, [evs[i] EXCEPT !.time = t]))

(* runner.go:262-270: for nextStart < s.Duration *)
RECURSIVE Replay(_, _, _, _, _)
Replay(evs, nextStart, duration, repeatAfter, out) ==
    IF ~(nextStart < duration) THEN out
    ELSE LET r == ReplayOnce(evs, 1, nextStart, out)
         IN  Replay(evs, r.next + repeatAfter, duration, repeatAfter, r.out)

RECURSIVE SumOffsets(_, _)
SumOffsets(evs, i) == IF i = 0 THEN 0 ELSE evs[i].time + SumOffsets(evs, i - 1)

(* the loop of runner.go:262-270 never ends: nextStart does not grow *)
ReplayDiverges(s) ==
    /\ s.repeatAfter # NoRepeat
    /\ LatestOffset(s.events, Len(s.events)) + s.repeatAfter < s.duration
    /\ SumOffsets(s.events, Len(s.events)) + s.repeatAfter = 0

(* runner.go:252-272 *)
Expand(s) ==
    IF s.repeatAfter = NoRepeat THEN s.events
    ELSE s.events \o Replay(s.events,
                            LatestOffset(s.events, Len(s.events)) + s.repeatAfter,
                            s.duration, s.repeatAfter, <<>>)

(* sort.SliceStable by Time: x goes behind every element that is not later *)
RECURSIVE InsertStable(_, _)
InsertStable(sorted, x) ==
    IF sorted = <<>> THEN <<x>>
    ELSE IF x.time < sorted[Len(sorted)].time
         THEN Append(InsertStable(SubSeq(sorted, 1, Len(sorted) - 1), x),
                     sorted[Len(sorted)])
         ELSE Append(sorted, x)

RECURSIVE SortStable(_, _)
SortStable(evs, i) ==
    IF i = 0 THEN <<>> ELSE InsertStable(SortStable(evs, i - 1), evs[i])

(* runner.go:215-250: the error Validate returns before it touches the
   events ("" is nil) *)
ValidateError(s) ==
    IF s.name = "" THEN "scenario has no name"
    ELSE IF s.duration = 0 THEN "scenario has zero length duration"
    ELSE IF Len(s.events) = 0 THEN "scenario has no events"
    ELSE IF ~SelectorParses(s.nodeSelector) THEN "invalid node selector"
    ELSE IF DuplicateDeployments(s.deployments) THEN "duplicate deployment names"
    ELSE IF UnknownDeployment(s) THEN "unknown deployment"
    ELSE ""

(* runner.go:251-277: the scenario as Validate leaves it *)
Validated(s) ==
    LET all == Expand(s)
    IN  [name |-> s.name, duration |-> s.duration, deployments |-> s.deployments,
         repeatAfter |-> s.repeatAfter, nodeSelector |-> s.nodeSelector,
         events |-> SortStable(all, Len(all))]

(* runner.go:203-213 *)
Open(s) ==
    IF s.decodeErr THEN [scenario |-> NoScenario, err |-> "decoding scenario"]
    ELSE IF ValidateError(s) # ""
         THEN [scenario |-> NoScenario, err |-> ValidateError(s)]
         ELSE [scenario |-> Validated(s), err |-> ""]

OpenScenario ==
    /\ vpc = "decoded"
    /\ IF ~vin.decodeErr /\ ValidateError(vin) = "" /\ ReplayDiverges(vin)
       THEN vpc' = "hang" /\ UNCHANGED vout
       ELSE vpc' = "returned" /\ vout' = Open(vin)
    /\ UNCHANGED <<vin, alive, ctxDone, now, envVars, orchVars, evVars, apiVars, rlog>>
    /\ UNCHANGED monVars

ValidateInit ==
    /\ vin \in Inputs
    /\ vpc = "decoded"
    /\ vout = NoResult
    /\ RunnerAtMain({SingleEvent}, {0})
    /\ MonitorIdle

SpecValidate == ValidateInit /\ [][OpenScenario]_vars

(***************************************************************************)
(* Properties of Open                                                      *)
(***************************************************************************)
Offsets(evs) == [i \in 1..Len(evs) |-> evs[i].time]

(* C2, as claimed: events at 0s and 5s, duration 30s, repeat interval 10s
   validate to the offsets 0s, 5s, 15s, 20s, 25s. *)
C2_RepeatExample ==
    (/\ vpc = "returned"
     /\ vout.err = ""
     /\ Offsets(vin.events) = <<0, 5>>
     /\ vin.duration = 30
     /\ vin.repeatAfter = 10)
        => Offsets(vout.scenario.events) = <<0, 5, 15, 20, 25>>

Rejected(s) ==
    \/ s.name = ""
    \/ s.duration = 0
    \/ s.events = <<>>
    \/ \E i, j \in 1..Len(s.deployments) : i # j /\ s.deployments[i] = s.deployments[j]
    \/ \E i \in 1..Len(s.events) :
          \A j \in 1..Len(s.deployments) : s.deployments[j] # s.events[i].deployment

(* C10: whenever the name is empty, the duration zero, the event list
   empty, two deployments share a name or an event names an undeclared
   deployment, Open returns an error and a nil scenario; a scenario is
   returned only when none of these holds, and then with a nil error. *)
C10_OpenRejects ==
    vpc = "returned" =>
        /\ Rejected(vin) => (vout.err # "" /\ vout.scenario = NoScenario)
        /\ vout.scenario # NoScenario => (~Rejected(vin) /\ vout.err = "")
        /\ vout.err # "" => vout.scenario = NoScenario

C10_Witness ==
    /\ vpc = "returned"
    /\ vout.err = "duplicate deployment names"
    /\ vout.scenario = NoScenario
    /\ vin.name # ""
    /\ vin.duration # 0
    /\ vin.events # <<>>

(* C20, as claimed: when Open has validated a scenario with a repeat
   interval whose original offsets are all less than the duration, every
   event of the expanded list has an offset less than the duration. *)
C20_ExpandedWithinDuration ==
    (/\ vpc = "returned"
     /\ vout.err = ""
     /\ vin.repeatAfter # NoRepeat
     /\ \A i \in 1..Len(vin.events) : vin.events[i].time < vin.duration)
        => \A i \in 1..Len(vout.scenario.events) :
                vout.scenario.events[i].time < vin.duration

====
